---- MODULE Spec2Model ----
(***************************************************************************)
(* Fixed-window rate limiter backed by a shared Redis counter store.       *)
(* Model of src/simple-rate-limiter.js (checkRateLimit and its helpers)    *)
(* and of the Redis client configuration of src/unnamed/part_000.          *)
(***************************************************************************)
EXTENDS Integers, Sequences, FiniteSets, Bags, TLC

(***************************************************************************)
(* Bounds of the model.                                                    *)
(***************************************************************************)
\* windows 0..MaxWindow are explored by the clock
MaxWindow == 2
\* calls of checkRateLimit issued in one sequential run that crosses windows
MaxCalls == 8
\* calls beyond the quota issued in one sequential run that stays in its window
MaxOver == 2
\* concurrent decisions launched in the concurrency specification
NConc == 7
\* calls of checkRateLimit issued in one run of the fault specification
MaxFaultCalls == 2
\* requests served at a time in the fault specification
NFault == 1
\* calls of checkRateLimit issued in one run of the two-credential specification
MaxKeyCalls == 2

(***************************************************************************)
(* Configuration (simple-rate-limiter.js, lines 7-23).                     *)
(***************************************************************************)
WINDOW_SIZE == 60

API_KEYS ==
    [ sk_test_free_1       |-> "free",
      sk_test_free_2       |-> "free",
      sk_test_premium_1    |-> "premium",
      sk_test_premium_2    |-> "premium",
      sk_test_enterprise_1 |-> "enterprise" ]

TIER_LIMITS == [ free |-> 5, premium |-> 20, enterprise |-> 100 ]

\* API_KEYS is an object literal: a property read that finds no own property
\* goes on to Object.prototype.  These names are inherited from it.
ObjectPrototypeKeys ==
    { "constructor", "toString", "valueOf", "hasOwnProperty", "__proto__" }

\* The tier a read of an inherited property yields: a function object (or the
\* prototype object), which is truthy and is no key of TIER_LIMITS.
InheritedValue(key) == "[inherited " \o key \o "]"

\* JavaScript values that are not numbers, as numbers no count or limit takes.
Undefined == -1000
NaN == -2000

IsNumber(x) == x # Undefined /\ x # NaN

\* a - b in JavaScript
JsSub(a, b) == IF IsNumber(a) /\ IsNumber(b) THEN a - b ELSE NaN

\* a > b in JavaScript: a comparison with undefined or NaN is false
JsGt(a, b) == IF IsNumber(a) /\ IsNumber(b) THEN a > b ELSE FALSE

(***************************************************************************)
(* The window length as configured (line 8):                               *)
(*   parseInt(process.env.WINDOW_SIZE) || 60                               *)
(* An environment variable is unset or a string, here a sequence of        *)
(* one-character strings.                                                  *)
(***************************************************************************)
EnvUnset == [ set |-> FALSE, chars |-> << >> ]

EnvString(chars) == [ set |-> TRUE, chars |-> chars ]

WhiteSpace == { " ", "\t", "\n" }

DigitValue ==
    [ c \in { "0", "1", "2", "3", "4", "5", "6", "7", "8", "9" } |->
        CASE c = "0" -> 0 [] c = "1" -> 1 [] c = "2" -> 2 [] c = "3" -> 3
          [] c = "4" -> 4 [] c = "5" -> 5 [] c = "6" -> 6 [] c = "7" -> 7
          [] c = "8" -> 8 [] c = "9" -> 9 ]

HexValue ==
    [ c \in DOMAIN DigitValue \cup { "a", "b", "c", "d", "e", "f",
                                      "A", "B", "C", "D", "E", "F" } |->
        IF c \in DOMAIN DigitValue THEN DigitValue[c]
        ELSE CASE c \in {"a", "A"} -> 10 [] c \in {"b", "B"} -> 11
               [] c \in {"c", "C"} -> 12 [] c \in {"d", "D"} -> 13
               [] c \in {"e", "E"} -> 14 [] c \in {"f", "F"} -> 15 ]

RECURSIVE SkipWhiteSpace(_)
SkipWhiteSpace(s) ==
    IF s # << >> /\ Head(s) \in WhiteSpace THEN SkipWhiteSpace(Tail(s)) ELSE s

\* the value of the longest prefix of s made of digits of the radix, acc being
\* the value of the digits read so far; NaN when there is no digit at all
RECURSIVE ParseDigits(_, _, _, _)
ParseDigits(s, digits, radix, acc) ==
    IF s # << >> /\ Head(s) \in DOMAIN digits
    THEN ParseDigits(Tail(s), digits, radix,
                     (IF acc = NaN THEN 0 ELSE acc * radix) + digits[Head(s)])
    ELSE acc

\* parseInt(string): leading white space, a sign, then a 0x prefix with
\* hexadecimal digits, or decimal digits, up to the first other character
ParseInt(env) ==
    IF ~env.set THEN NaN
    ELSE LET s == SkipWhiteSpace(env.chars)
             signed == s # << >> /\ Head(s) \in { "+", "-" }
             sign == IF signed /\ Head(s) = "-" THEN -1 ELSE 1
             u == IF signed THEN Tail(s) ELSE s
             hex == Len(u) >= 2 /\ u[1] = "0" /\ u[2] \in { "x", "X" }
             n == IF hex THEN ParseDigits(Tail(Tail(u)), HexValue, 16, NaN)
                         ELSE ParseDigits(u, DigitValue, 10, NaN)
         IN  IF n = NaN THEN NaN ELSE sign * n

\* x || 60: 0 and NaN are falsy
ConfiguredWindowSize(env) ==
    LET n == ParseInt(env)
    IN  IF n = NaN \/ n = 0 THEN 60 ELSE n

(***************************************************************************)
(* Tier resolver (lines 25-34).                                            *)
(***************************************************************************)
\* API_KEYS[apiKey] || 'free'
getTierFromAPIKey(apiKey) ==
    IF apiKey \in DOMAIN API_KEYS THEN API_KEYS[apiKey]
    ELSE IF apiKey \in ObjectPrototypeKeys THEN InheritedValue(apiKey)
    ELSE "free"

\* TIER_LIMITS[tier]
getRateLimitForAPIKey(apiKey) ==
    LET tier == getTierFromAPIKey(apiKey)
    IN  IF tier \in DOMAIN TIER_LIMITS THEN TIER_LIMITS[tier] ELSE Undefined

(***************************************************************************)
(* The credentials the model sends, the clock's time points, the keys.     *)
(***************************************************************************)
Creds ==
    { "sk_test_free_1", "sk_test_premium_1", "sk_test_enterprise_1",
      "unknown_key", "constructor" }

WindowMs == WINDOW_SIZE * 1000

\* Date.now() takes the first and the last millisecond of every window.
TimePoints ==
    { w * WindowMs + o : w \in 0..MaxWindow, o \in {0, WindowMs - 1} }

\* the key without the window
RedisKeyNoWindow(apiKey, currentWindow) == "rate_limit:" \o apiKey

\* `rate_limit:${apiKey}:${currentWindow}`: a string, the window in decimal
RedisKey(apiKey, currentWindow) ==
    "rate_limit:" \o apiKey \o ":" \o ToString(currentWindow)

\* credentials made of the characters the key is built with
KeyCreds == { "k", "k:", "k:1", "1", ":1", "rate_limit:k" }

\* the (credential, window) pairs of the model
KeyPairs == (Creds \cup KeyCreds) \X (0..MaxWindow)

\* the keys of a set of credentials
KeysOf(creds) == { RedisKey(c, w) : c \in creds, w \in 0..MaxWindow }

\* a pair that key k encodes
KeyPair(k) == CHOOSE p \in KeyPairs : RedisKey(p[1], p[2]) = k

KeyCred(k) == KeyPair(k)[1]
KeyWindow(k) == KeyPair(k)[2]

VARIABLES
    now,        \* Date.now(), milliseconds
    store,      \* Redis: key -> integer value, 0 when the key does not exist
    expireAt,   \* Redis: key -> time (ms) its TTL ends, 0 when it has no TTL
    mode,       \* the client's connection: ready, hung, reconnecting, closed
    retries,    \* reconnection attempts made since the connection was lost
    reqs,       \* the requests being served: a bag of records, one per request
    issued,     \* history: key -> calls of checkRateLimit that computed it
    created,    \* history: key -> INCRs that returned 1 for it
    ncalls,     \* history: calls of checkRateLimit issued
    waited,     \* history: reconnection delay (ms) since the connection was lost
    obs,        \* history: the last two (time, window) readings of the clock
    proc,       \* the server process: its environment, its WINDOW_SIZE, its phase
    requestCounts,  \* in-memory variant: userId -> its count and window
    memLog      \* history: the calls of the in-memory checkRateLimit each user
                \* made since the clock entered its window, and the last call

vars ==
    << now, store, expireAt, mode, retries, reqs, issued, created, ncalls,
       waited, obs, proc, requestCounts, memLog >>

\* the keys of the run: those of the credentials its requests carry
AllKeys == DOMAIN store

(***************************************************************************)
(* A request is a record:                                                  *)
(*   pc      idle, incr (awaiting line 59), expire (awaiting line 63), done*)
(*   cmd     its store command: none, pending, ok (reply in flight), err   *)
(*   apiKey, currentWindow, userLimit, tier, redisKey, count               *)
(*           the locals of checkRateLimit                                  *)
(*   trips   the store commands the call has issued and awaited            *)
(*   result  the value checkRateLimit returned                             *)
(*   response  what the handler of /api/resource answered                  *)
(*   inWindow  whether it returned in the window it computed               *)
(* Requests carry no identity: two requests in the same state are two      *)
(* copies of one record.                                                   *)
(***************************************************************************)
NoResult == [ none |-> TRUE ]

NoResponse == [ status |-> 0, retryAfter |-> 0, remainingHeader |-> 0, threw |-> FALSE ]

Slot(apiKey) ==
    [ pc |-> "idle", cmd |-> "none", apiKey |-> apiKey, currentWindow |-> 0,
      userLimit |-> 0, tier |-> "free", redisKey |-> RedisKey(apiKey, 0),
      count |-> 0, trips |-> 0, result |-> NoResult, inWindow |-> TRUE,
      response |-> NoResponse ]

Requests == BagToSet(reqs)

InFlight(r) == r.pc \in {"incr", "expire"}

Done(r) == r.pc = "done"

\* n copies of record r
Copies(r, n) == IF n = 0 THEN EmptyBag ELSE [ x \in {r} |-> n ]

\* the bag with one copy of r replaced by r2
Replace(r, r2) == (reqs (-) SetToBag({r})) (+) SetToBag({r2})

RECURSIVE SumCopies(_, _)
SumCopies(B, S) ==
    IF S = {} THEN 0
    ELSE LET r == CHOOSE x \in S : TRUE
         IN  CopiesIn(r, B) + SumCopies(B, S \ {r})

\* the number of requests of bag B that satisfy P
CountOf(B, P(_)) == SumCopies(B, { r \in BagToSet(B) : P(r) })

\* the bag B with F applied to every request
MapBag(B, F(_)) ==
    LET S == BagToSet(B)
    IN  [ x \in { F(r) : r \in S } |-> SumCopies(B, { r \in S : F(r) = x }) ]

(***************************************************************************)
(* Window clock (lines 36-40).                                             *)
(***************************************************************************)
\* the window rounded to the nearest instead of floored
GetCurrentWindowRounded == (now + (WINDOW_SIZE * 1000) \div 2) \div (WINDOW_SIZE * 1000)

\* Math.floor(now / (WINDOW_SIZE * 1000))
getCurrentWindow == now \div (WINDOW_SIZE * 1000)

(***************************************************************************)
(* Redis client configuration (part_000, lines 181-195).                   *)
(***************************************************************************)
Min(a, b) == IF a < b THEN a ELSE b

\* reconnectStrategy returns an Error once retries > 10 ...
ReconnectGivesUp(r) == r > 10

\* ... and otherwise the delay before the next attempt
ReconnectDelay(r) == Min(r * 100, 3000)

(***************************************************************************)
(* The decision (lines 70-90) and the fail-open decision (line 101).       *)
(***************************************************************************)
\* the decision with the boundary off by one: count >= limit rejects
DecideInclusive(count, userLimit, tier) ==
    IF JsGt(count + 1, userLimit)
    THEN [ allowed |-> FALSE, count |-> count, limit |-> userLimit, tier |-> tier ]
    ELSE [ allowed |-> TRUE, count |-> count, limit |-> userLimit, tier |-> tier,
           remaining |-> JsSub(userLimit, count) ]

\* the decision with the boundary off by one the other way: count = limit + 1
\* is still allowed
DecideLenient(count, userLimit, tier) ==
    IF JsGt(count - 1, userLimit)
    THEN [ allowed |-> FALSE, count |-> count, limit |-> userLimit, tier |-> tier ]
    ELSE [ allowed |-> TRUE, count |-> count, limit |-> userLimit, tier |-> tier,
           remaining |-> JsSub(userLimit, count) ]

\* the decision that rejects the first count beyond the limit only: an
\* equality where the code compares with >
DecideAtBoundary(count, userLimit, tier) ==
    IF IsNumber(userLimit) /\ count = userLimit + 1
    THEN [ allowed |-> FALSE, count |-> count, limit |-> userLimit, tier |-> tier ]
    ELSE [ allowed |-> TRUE, count |-> count, limit |-> userLimit, tier |-> tier,
           remaining |-> JsSub(userLimit, count) ]

Decide(count, userLimit, tier) ==
    IF JsGt(count, userLimit)
    THEN [ allowed |-> FALSE, count |-> count, limit |-> userLimit, tier |-> tier ]
    ELSE [ allowed |-> TRUE, count |-> count, limit |-> userLimit, tier |-> tier,
           remaining |-> JsSub(userLimit, count) ]

\* the store failure answered by a refusal
FailClosed(userLimit, tier) ==
    [ allowed |-> FALSE, count |-> 0, limit |-> userLimit, tier |-> tier ]

FailOpen(userLimit, tier) ==
    [ allowed |-> TRUE, count |-> 0, limit |-> userLimit, tier |-> tier,
      remaining |-> userLimit ]

\* a TTL of half a window
ExpireSecondsShort == WINDOW_SIZE \div 2

\* redisClient.expire(redisKey, WINDOW_SIZE * 2): the TTL, in seconds
ExpireSeconds == WINDOW_SIZE * 2

\* a command issued on a closed client is rejected at once; otherwise it is
\* sent, or queued until the connection is back
Issue == IF mode = "closed" THEN "err" ELSE "pending"

(***************************************************************************)
(* The single-process in-memory variant (part_000, lines 1-75; lines       *)
(* 77-175 are the same code with logging).  requestCounts is an object     *)
(* literal: requestCounts[userId] yields the user's own entry, or for a    *)
(* userId that names a property of Object.prototype the inherited object,  *)
(* whose count and window are undefined until the variant writes them.     *)
(* The model keeps, for every userId, the count and window of the object   *)
(* requestCounts[userId] yields.                                           *)
(***************************************************************************)
RATE_LIMIT == 10

MemWindowSize == 60

Users == Creds \cup { "anonymous" }

NoEntry == [ own |-> FALSE, count |-> Undefined, window |-> Undefined ]

NoRequestCounts == [ u \in Users |-> NoEntry ]

\* no call made yet
NoMemLog ==
    [ inWindow |-> [ u \in Users |-> 0 ],
      last |-> [ userId |-> "", allowed |-> TRUE, count |-> 0, window |-> 0 ] ]

\* Math.floor(now / (WINDOW_SIZE * 1000)), part_000 lines 13-19
MemGetCurrentWindow == now \div (MemWindowSize * 1000)

\* requestCounts[userId] is truthy
HasEntry(userId) == requestCounts[userId].own \/ userId \in ObjectPrototypeKeys

\* the entry of userId when a new window does not reset the count
MemCountedNoReset(userId) ==
    LET currentWindow == MemGetCurrentWindow
        userData == IF HasEntry(userId) THEN requestCounts[userId]
                    ELSE [ own |-> TRUE, count |-> 0, window |-> currentWindow ]
        kept == [ userData EXCEPT !.count = IF IsNumber(@) THEN @ ELSE 0,
                                  !.window = currentWindow ]
    IN  [ kept EXCEPT !.count = @ + 1 ]

\* the entry of userId after lines 23-42 of checkRateLimit(userId)
MemCounted(userId) ==
    LET currentWindow == MemGetCurrentWindow
        userData == IF HasEntry(userId) THEN requestCounts[userId]
                    ELSE [ own |-> TRUE, count |-> 0, window |-> currentWindow ]
        fresh == IF userData.window # currentWindow
                 THEN [ userData EXCEPT !.count = 0, !.window = currentWindow ]
                 ELSE userData
    IN  [ fresh EXCEPT !.count = IF IsNumber(@) THEN @ + 1 ELSE NaN ]

\* the in-memory check refusing the request that reaches RATE_LIMIT
MemCheckRateLimitInclusive(userId) ==
    LET userData == MemCounted(userId)
        allowed == JsGt(RATE_LIMIT, userData.count)
    IN  /\ requestCounts' = [ requestCounts EXCEPT ![userId] = userData ]
        /\ memLog' = [ inWindow |-> [ memLog.inWindow EXCEPT ![userId] = @ + 1 ],
                       last |-> [ userId |-> userId, allowed |-> allowed,
                                  count |-> userData.count,
                                  window |-> userData.window ] ]

\* checkRateLimit(userId) of the in-memory variant, lines 22-49
MemCheckRateLimit(userId) ==
    LET userData == MemCounted(userId)
        allowed == ~JsGt(userData.count, RATE_LIMIT)
    IN  /\ requestCounts' = [ requestCounts EXCEPT ![userId] = userData ]
        /\ memLog' = [ inWindow |-> [ memLog.inWindow EXCEPT ![userId] = @ + 1 ],
                       last |-> [ userId |-> userId, allowed |-> allowed,
                                  count |-> userData.count,
                                  window |-> userData.window ] ]

(***************************************************************************)
(* Initial state: idle requests, a ready connection, and the counters the  *)
(* store holds: the store outlives the server processes, so a counter may  *)
(* have been left by earlier requests of its window, the first of which    *)
(* set its TTL.                                                            *)
(***************************************************************************)
NoCounters(creds) == [ k \in KeysOf(creds) |-> 0 ]

InitWith(slots, counters) ==
    /\ now \in { t \in TimePoints : t < WindowMs }
    /\ store = counters
    /\ expireAt = [ k \in DOMAIN counters |->
                      IF counters[k] > 0
                      THEN KeyWindow(k) * WindowMs + ExpireSeconds * 1000
                      ELSE 0 ]
    /\ mode = "ready"
    /\ retries = 0
    /\ reqs = slots
    /\ issued = counters
    /\ created = [ k \in DOMAIN counters |-> IF counters[k] > 0 THEN 1 ELSE 0 ]
    /\ ncalls = 0
    /\ waited = 0
    /\ obs = << >>
    /\ proc = [ env |-> EnvUnset, windowSize |-> WINDOW_SIZE, phase |-> "serving" ]
    /\ requestCounts = NoRequestCounts
    /\ memLog = NoMemLog

(***************************************************************************)
(* checkRateLimit, lines 44-59: read the clock, resolve the tier, build    *)
(* the key and issue INCR.                                                 *)
(***************************************************************************)
Call(r, apiKey) ==
    /\ r.pc \in {"idle", "done"}
    /\ LET currentWindow == getCurrentWindow
           userLimit == getRateLimitForAPIKey(apiKey)
           tier == getTierFromAPIKey(apiKey)
           redisKey == RedisKey(apiKey, currentWindow)
       IN  /\ reqs' = Replace(r,
                        [ pc |-> "incr", cmd |-> Issue, apiKey |-> apiKey,
                          currentWindow |-> currentWindow, userLimit |-> userLimit,
                          tier |-> tier, redisKey |-> redisKey, count |-> 0,
                          trips |-> 1, result |-> NoResult, inWindow |-> TRUE,
                          response |-> NoResponse ])
           /\ issued' = [ issued EXCEPT ![redisKey] = @ + 1 ]
    /\ ncalls' = ncalls + 1
    /\ UNCHANGED << now, store, expireAt, mode, retries, created, waited, obs,
                    proc, requestCounts, memLog >>

\* an increment that is a read followed by a write: it is lost when it overlaps
\* another increment of the key whose reply is still in flight
StoreIncrRacy(r) ==
    /\ mode = "ready"
    /\ r.pc = "incr"
    /\ r.cmd = "pending"
    /\ LET k == r.redisKey
           lost == \E o \in Requests :
                      o.redisKey = k /\ o.pc = "incr" /\ o.cmd = "ok"
           v == IF lost THEN store[k] ELSE store[k] + 1
       IN  /\ store' = [ store EXCEPT ![k] = v ]
           /\ created' = [ created EXCEPT ![k] = IF store[k] = 0 THEN @ + 1 ELSE @ ]
           /\ reqs' = Replace(r, [ r EXCEPT !.cmd = "ok", !.count = v ])
    /\ UNCHANGED << now, expireAt, mode, retries, issued, ncalls, waited, obs,
                    proc, requestCounts, memLog >>

\* an increment that answers with the value the key held before it
StoreIncrPrevious(r) ==
    /\ mode = "ready"
    /\ r.pc = "incr"
    /\ r.cmd = "pending"
    /\ LET k == r.redisKey
       IN  /\ store' = [ store EXCEPT ![k] = @ + 1 ]
           /\ created' = [ created EXCEPT ![k] = IF store[k] = 0 THEN @ + 1 ELSE @ ]
           /\ reqs' = Replace(r, [ r EXCEPT !.cmd = "ok", !.count = store[k] ])
    /\ UNCHANGED << now, expireAt, mode, retries, issued, ncalls, waited, obs,
                    proc, requestCounts, memLog >>

(***************************************************************************)
(* Redis executes INCR: atomic, creates the key at 1 when it is absent,    *)
(* leaves the TTL of an existing key alone.  The reply is then in flight.  *)
(***************************************************************************)
StoreIncr(r) ==
    /\ mode = "ready"
    /\ r.pc = "incr"
    /\ r.cmd = "pending"
    /\ LET k == r.redisKey
       IN  /\ store' = [ store EXCEPT ![k] = @ + 1 ]
           /\ created' = [ created EXCEPT ![k] = IF store[k] = 0 THEN @ + 1 ELSE @ ]
           /\ reqs' = Replace(r, [ r EXCEPT !.cmd = "ok", !.count = store[k] + 1 ])
    /\ UNCHANGED << now, expireAt, mode, retries, issued, ncalls, waited, obs,
                    proc, requestCounts, memLog >>

(***************************************************************************)
(* The handler of /api/resource once checkRateLimit has returned (lines    *)
(* 138-163): it sets the headers, then answers 429 or 200.  setHeader      *)
(* throws on a value that is undefined, and the handler then sends nothing.*)
(***************************************************************************)
\* x || 0
OrZero(x) == IF IsNumber(x) THEN x ELSE 0

Respond(result) ==
    IF result.limit = Undefined
    THEN [ status |-> 0, retryAfter |-> 0, remainingHeader |-> 0, threw |-> TRUE ]
    ELSE LET remainingHeader ==
                 IF "remaining" \in DOMAIN result THEN OrZero(result.remaining) ELSE 0
         IN  IF ~result.allowed
             THEN [ status |-> 429, retryAfter |-> WINDOW_SIZE,
                    remainingHeader |-> remainingHeader, threw |-> FALSE ]
             ELSE [ status |-> 200, retryAfter |-> 0,
                    remainingHeader |-> remainingHeader, threw |-> FALSE ]

\* the request r once checkRateLimit has returned decision and the handler
\* has run to its end
Returned(r, decision) ==
    [ r EXCEPT !.pc = "done", !.result = decision,
               !.inWindow = (getCurrentWindow = r.currentWindow),
               !.response = Respond(decision) ]

\* EXPIRE issued after every INCR, whatever the count
RecvIncrAlwaysExpire(r) ==
    /\ mode = "ready"
    /\ r.pc = "incr"
    /\ r.cmd = "ok"
    /\ reqs' = Replace(r, [ r EXCEPT !.pc = "expire", !.cmd = Issue, !.trips = @ + 1 ])
    /\ UNCHANGED << now, store, expireAt, mode, retries, issued, created,
                    ncalls, waited, obs,
                    proc, requestCounts, memLog >>

(***************************************************************************)
(* Lines 59-90 once INCR has answered: on count 1 issue EXPIRE, otherwise  *)
(* decide.                                                                 *)
(***************************************************************************)
RecvIncr(r) ==
    /\ mode = "ready"
    /\ r.pc = "incr"
    /\ r.cmd = "ok"
    /\ reqs' = Replace(r,
                 IF r.count = 1
                 THEN [ r EXCEPT !.pc = "expire", !.cmd = Issue, !.trips = @ + 1 ]
                 ELSE Returned(r, Decide(r.count, r.userLimit, r.tier)))
    /\ UNCHANGED << now, store, expireAt, mode, retries, issued, created,
                    ncalls, waited, obs,
                    proc, requestCounts, memLog >>

(***************************************************************************)
(* Redis executes EXPIRE key seconds: sets the TTL of an existing key (a   *)
(* TTL that is not positive deletes it), does nothing for a missing key.   *)
(***************************************************************************)
StoreExpire(r) ==
    /\ mode = "ready"
    /\ r.pc = "expire"
    /\ r.cmd = "pending"
    /\ LET k == r.redisKey
       IN  IF store[k] = 0
           THEN UNCHANGED << store, expireAt >>
           ELSE IF ExpireSeconds <= 0
                THEN /\ store' = [ store EXCEPT ![k] = 0 ]
                     /\ expireAt' = [ expireAt EXCEPT ![k] = 0 ]
                ELSE /\ expireAt' = [ expireAt EXCEPT ![k] = now + ExpireSeconds * 1000 ]
                     /\ UNCHANGED store
    /\ reqs' = Replace(r, [ r EXCEPT !.cmd = "ok" ])
    /\ UNCHANGED << now, mode, retries, issued, created, ncalls, waited, obs,
                    proc, requestCounts, memLog >>

\* lines 63-90 once EXPIRE has answered
RecvExpire(r) ==
    /\ mode = "ready"
    /\ r.pc = "expire"
    /\ r.cmd = "ok"
    /\ reqs' = Replace(r, Returned(r, Decide(r.count, r.userLimit, r.tier)))
    /\ UNCHANGED << now, store, expireAt, mode, retries, issued, created,
                    ncalls, waited, obs,
                    proc, requestCounts, memLog >>

\* lines 92-102: the awaited command was rejected
Catch(r) ==
    /\ InFlight(r)
    /\ r.cmd = "err"
    /\ reqs' = Replace(r, Returned(r, FailOpen(r.userLimit, r.tier)))
    /\ UNCHANGED << now, store, expireAt, mode, retries, issued, created,
                    ncalls, waited, obs,
                    proc, requestCounts, memLog >>

(***************************************************************************)
(* Time passes; Redis drops every key whose TTL has ended.  When the clock *)
(* enters another window the history starts to count that window's calls.  *)
(***************************************************************************)
Expired(k, t) == expireAt[k] # 0 /\ expireAt[k] <= t

Tick(t) ==
    /\ t > now
    /\ now' = t
    /\ store' = [ k \in AllKeys |-> IF Expired(k, t) THEN 0 ELSE store[k] ]
    /\ expireAt' = [ k \in AllKeys |-> IF Expired(k, t) THEN 0 ELSE expireAt[k] ]
    /\ memLog' = IF t \div WindowMs = getCurrentWindow THEN memLog
                 ELSE [ memLog EXCEPT !.inWindow = [ u \in Users |-> 0 ] ]
    /\ UNCHANGED << mode, retries, reqs, issued, created, ncalls, waited, obs,
                    proc, requestCounts >>

(***************************************************************************)
(* The handler of /api/resource up to the call of checkRateLimit (lines    *)
(* 122-136): a request whose x-api-key header is absent or empty is        *)
(* answered 401.                                                           *)
(***************************************************************************)
\* req.headers['x-api-key'] of a request that carries no such header
HeaderAbsent == "<undefined>"

MissingCreds == { HeaderAbsent, "" }

\* !apiKey
Falsy(apiKey) == apiKey \in MissingCreds

Unauthorized(r) ==
    /\ r.pc \in {"idle", "done"}
    /\ reqs' = Replace(r, [ Slot(r.apiKey) EXCEPT
                               !.pc = "done",
                               !.response = [ NoResponse EXCEPT !.status = 401 ] ])
    /\ UNCHANGED << now, store, expireAt, mode, retries, issued, created,
                    ncalls, waited, obs,
                    proc, requestCounts, memLog >>

\* the handler without its check of the credential
ApiResourceUnchecked(r) == Call(r, r.apiKey)

ApiResource(r) ==
    IF Falsy(r.apiKey) THEN Unauthorized(r) ELSE Call(r, r.apiKey)

\* each step, taken by any request that can take it
DoStoreIncr == \E r \in Requests : StoreIncr(r)
DoRecvIncr == \E r \in Requests : RecvIncr(r)
DoStoreExpire == \E r \in Requests : StoreExpire(r)
DoRecvExpire == \E r \in Requests : RecvExpire(r)
DoCatch == \E r \in Requests : Catch(r)

(***************************************************************************)
(* Sequential calls against a healthy store: one request at a time, for    *)
(* one credential per run.                                                 *)
(***************************************************************************)
InitSeq == \E c \in Creds : InitWith(Copies(Slot(c), 1), NoCounters({c}))

\* a run issues MaxCalls calls, and goes on past them while all its calls fall
\* in one window, until the quota is exceeded by MaxOver
SeqCall ==
    \E r \in Requests :
        LET k == RedisKey(r.apiKey, getCurrentWindow)
        IN  /\ \/ ncalls < MaxCalls
               \/ /\ issued[k] = ncalls
                  /\ JsGt(getRateLimitForAPIKey(r.apiKey) + MaxOver, ncalls)
            /\ ApiResource(r)

SeqTick == \E t \in TimePoints : Tick(t)

NextSeq ==
    \/ SeqCall
    \/ DoStoreIncr
    \/ DoRecvIncr
    \/ DoStoreExpire
    \/ DoRecvExpire
    \/ SeqTick

SpecSeq == InitSeq /\ [][NextSeq]_vars

(***************************************************************************)
(* Concurrent decisions against a healthy store: NConc requests, each      *)
(* issuing one call, all for the credential of the run, interleaved at     *)
(* every await.                                                            *)
(***************************************************************************)
ConcCreds == { "sk_test_free_1", "unknown_key", "constructor" }

\* a run has one more request, which carries no credential
InitConc ==
    \E c \in ConcCreds, h \in MissingCreds :
        InitWith(Copies(Slot(c), NConc) (+) Copies(Slot(h), 1), NoCounters({c}))

ConcCall == \E r \in Requests : r.pc = "idle" /\ ApiResource(r)

\* the decisions of a run are made within one window: the clock stays in it
ConcTick == \E t \in TimePoints : t \div WindowMs = getCurrentWindow /\ Tick(t)

NextConc ==
    \/ ConcCall
    \/ DoStoreIncr
    \/ DoRecvIncr
    \/ DoStoreExpire
    \/ DoRecvExpire
    \/ ConcTick

SpecConc == InitConc /\ [][NextConc]_vars

(***************************************************************************)
(* Two credentials at a time against a healthy store: one request each,    *)
(* the credentials drawn from those made of the key's own characters.      *)
(* The store of a run holds the keys of its two credentials.               *)
(***************************************************************************)
KeyRunCreds == { "k", "k:", "k:1" }

InitKeys ==
    \E a \in KeyRunCreds, b \in KeyRunCreds :
        /\ a # b
        /\ InitWith(Copies(Slot(a), 1) (+) Copies(Slot(b), 1), NoCounters({a, b}))

KeysCall == \E r \in Requests : ncalls < MaxKeyCalls /\ ApiResource(r)

KeysTick == \E t \in TimePoints : Tick(t)

NextKeys ==
    \/ KeysCall
    \/ DoStoreIncr
    \/ DoRecvIncr
    \/ DoStoreExpire
    \/ DoRecvExpire
    \/ KeysTick

SpecKeys == InitKeys /\ [][NextKeys]_vars

(***************************************************************************)
(* A burst of one credential against a healthy store: NBurst requests,     *)
(* each issuing one call, one call at a time, while the clock advances.    *)
(* Every decision made stays in reqs.                                      *)
(***************************************************************************)
BurstCreds == { "sk_test_free_1" }

\* enough requests to fill two windows and exceed the quota in one of them
NBurst == 2 * TIER_LIMITS["free"] + 1

InitBurst ==
    \E c \in BurstCreds : InitWith(Copies(Slot(c), NBurst), NoCounters({c}))

BurstCall ==
    \E r \in Requests :
        /\ r.pc = "idle"
        /\ \A o \in Requests : ~InFlight(o)
        /\ ApiResource(r)

BurstTick == \E t \in TimePoints : Tick(t)

NextBurst ==
    \/ BurstCall
    \/ DoStoreIncr
    \/ DoRecvIncr
    \/ DoStoreExpire
    \/ DoRecvExpire
    \/ BurstTick

SpecBurst == InitBurst /\ [][NextBurst]_vars

(***************************************************************************)
(* Faults of the store and of the connection to it.                        *)
(***************************************************************************)
\* the server stops answering on an open connection, and answers again
Hang ==
    /\ mode = "ready"
    /\ mode' = "hung"
    /\ UNCHANGED << now, store, expireAt, retries, reqs, issued, created, ncalls,
                    waited, obs,
                    proc, requestCounts, memLog >>

Resume ==
    /\ mode = "hung"
    /\ mode' = "ready"
    /\ UNCHANGED << now, store, expireAt, retries, reqs, issued, created, ncalls,
                    waited, obs,
                    proc, requestCounts, memLog >>

\* the pending command of a request in flight is rejected
Reject(r) == IF InFlight(r) THEN [ r EXCEPT !.cmd = "err" ] ELSE r

\* the connection is lost: every command waiting for its reply is rejected,
\* executed or not, and the client starts to reconnect
Disconnect ==
    /\ mode \in {"ready", "hung"}
    /\ mode' = "reconnecting"
    /\ retries' = 0
    /\ waited' = 0
    /\ reqs' = MapBag(reqs, Reject)
    /\ UNCHANGED << now, store, expireAt, issued, created, ncalls, obs,
                    proc, requestCounts, memLog >>

\* a reconnection attempt fails and reconnectStrategy(retries) gives a delay
ReconnectRetry ==
    /\ mode = "reconnecting"
    /\ ~ReconnectGivesUp(retries)
    /\ retries' = retries + 1
    /\ waited' = waited + ReconnectDelay(retries)
    /\ UNCHANGED << now, store, expireAt, mode, reqs, issued, created, ncalls, obs,
                    proc, requestCounts, memLog >>

\* a reconnection attempt fails and reconnectStrategy(retries) gives an Error:
\* the client is closed and the queued commands are rejected
ReconnectGiveUp ==
    /\ mode = "reconnecting"
    /\ ReconnectGivesUp(retries)
    /\ mode' = "closed"
    /\ reqs' = MapBag(reqs, Reject)
    /\ UNCHANGED << now, store, expireAt, retries, issued, created, ncalls,
                    waited, obs,
                    proc, requestCounts, memLog >>

\* a reconnection attempt succeeds: the queued commands are sent
ReconnectOk ==
    /\ mode = "reconnecting"
    /\ mode' = "ready"
    /\ retries' = 0
    /\ waited' = 0
    /\ UNCHANGED << now, store, expireAt, reqs, issued, created, ncalls, obs,
                    proc, requestCounts, memLog >>

\* simple-rate-limiter.js, lines 269-273: the forced shutdown ends the process
\* with the request in flight, which returns nothing
ForcedShutdown(r) ==
    /\ InFlight(r)
    /\ reqs' = Replace(r, Slot(r.apiKey))
    /\ UNCHANGED << now, store, expireAt, mode, retries, issued, created, ncalls,
                    waited, obs,
                    proc, requestCounts, memLog >>

DoForcedShutdown == \E r \in Requests : ForcedShutdown(r)

(***************************************************************************)
(* The system with faults: NFault requests at a time, for one credential   *)
(* per run, over a store that may hang and a connection that may be lost.  *)
(***************************************************************************)
FaultCreds == { "sk_test_free_1" }

\* when a run starts the counter of its credential for window 0 is absent or
\* stands at the quota
Init ==
    \E c \in FaultCreds :
        \E n \in {0} \cup ({getRateLimitForAPIKey(c)} \ {Undefined}) :
            InitWith(Copies(Slot(c), NFault),
                     [ k \in KeysOf({c}) |-> IF k = RedisKey(c, 0) THEN n ELSE 0 ])

FaultCall == \E r \in Requests : ncalls < MaxFaultCalls /\ ApiResource(r)

FaultTick == \E t \in TimePoints : Tick(t)

Next ==
    \/ FaultCall
    \/ DoStoreIncr
    \/ DoRecvIncr
    \/ DoStoreExpire
    \/ DoRecvExpire
    \/ DoCatch
    \/ FaultTick
    \/ Disconnect
    \/ ReconnectOk
    \/ DoForcedShutdown

Spec == Init /\ [][Next]_vars

(***************************************************************************)
(* The system under fair scheduling, for what must eventually happen: one  *)
(* run of the fault specification's requests, with the whole life of the   *)
(* connection.  A ready store executes and answers, a rejected command     *)
(* reaches the catch branch, and a client that lost its connection goes on *)
(* trying to reconnect.  Nothing makes a hung store answer again.          *)
(***************************************************************************)
NextLive ==
    \/ FaultCall
    \/ DoStoreIncr
    \/ DoRecvIncr
    \/ DoStoreExpire
    \/ DoRecvExpire
    \/ DoCatch
    \/ Hang
    \/ Resume
    \/ Disconnect
    \/ ReconnectRetry
    \/ ReconnectGiveUp
    \/ ReconnectOk

FairSpec ==
    /\ Init
    /\ [][NextLive]_vars
    /\ WF_vars(DoStoreIncr)
    /\ WF_vars(DoRecvIncr)
    /\ WF_vars(DoStoreExpire)
    /\ WF_vars(DoRecvExpire)
    /\ WF_vars(DoCatch)
    /\ WF_vars(ReconnectRetry \/ ReconnectGiveUp \/ ReconnectOk)

(***************************************************************************)
(* The window clock alone: the clock advances through ClockTimes and is    *)
(* read by getCurrentWindow; obs keeps the last two readings.              *)
(***************************************************************************)
ClockTimes ==
    { w * WindowMs + o : w \in 0..MaxWindow,
                         o \in {0, 1, 999, 1000, WindowMs - 1000, WindowMs - 1} }

ReadClock ==
    /\ obs' = (IF Len(obs) < 2 THEN obs ELSE Tail(obs))
                 \o << [ t |-> now, w |-> getCurrentWindow ] >>
    /\ UNCHANGED << now, store, expireAt, mode, retries, reqs, issued, created,
                    ncalls, waited,
                    proc, requestCounts, memLog >>

ClockTick == \E t \in ClockTimes : Tick(t)

InitClock == InitWith(EmptyBag, NoCounters({}))

NextClock == ReadClock \/ ClockTick

SpecClock == InitClock /\ [][NextClock]_vars

(***************************************************************************)
(* The in-memory variant alone: requests of two users, answered at once    *)
(* (part_000, lines 52-69), while the clock advances.                      *)
(***************************************************************************)
MemUsers == { "anonymous", "constructor" }

InitMem == InitWith(EmptyBag, NoCounters({}))

\* a user sends up to MaxOver requests beyond RATE_LIMIT in a window
MemRequest ==
    /\ \E userID \in MemUsers :
          /\ memLog.inWindow[userID] < RATE_LIMIT + MaxOver
          /\ MemCheckRateLimit(userID)
    /\ UNCHANGED << now, store, expireAt, mode, retries, reqs, issued, created,
                    ncalls, waited, obs, proc >>

MemTick == \E t \in TimePoints : Tick(t)

NextMem == MemRequest \/ MemTick

SpecMem == InitMem /\ [][NextMem]_vars

(***************************************************************************)
(* The two variants side by side: every request (credential, time) is put  *)
(* to checkRateLimit of the store-backed variant and, at the same time, to *)
(* checkRateLimit of the in-memory variant with the credential as userId.  *)
(* Requests are sent one at a time, the store is healthy.                  *)
(***************************************************************************)
BothCreds == { "sk_test_free_1", "constructor" }

InitBoth == \E c \in BothCreds : InitWith(Copies(Slot(c), 1), NoCounters({c}))

\* the in-memory variant has been put every request the store-backed one has
MemCaughtUp(c) == memLog.inWindow[c] = issued[RedisKey(c, getCurrentWindow)]

\* a run issues MaxCalls calls, and goes on past them while all its calls fall
\* in one window, until RATE_LIMIT is exceeded by MaxOver
BothCall ==
    \E r \in Requests :
        LET k == RedisKey(r.apiKey, getCurrentWindow)
        IN  /\ MemCaughtUp(r.apiKey)
            /\ \/ ncalls < MaxCalls
               \/ /\ issued[k] = ncalls
                  /\ ncalls < RATE_LIMIT + MaxOver
            /\ ApiResource(r)

\* the same request, at the same time, put to the in-memory variant
BothMemCall ==
    /\ \E r \in Requests :
          /\ ~MemCaughtUp(r.apiKey)
          /\ MemCheckRateLimit(r.apiKey)
    /\ UNCHANGED << now, store, expireAt, mode, retries, reqs, issued, created,
                    ncalls, waited, obs, proc >>

BothTick ==
    /\ \A r \in Requests : MemCaughtUp(r.apiKey)
    /\ \E t \in TimePoints : Tick(t)

NextBoth ==
    \/ BothCall
    \/ BothMemCall
    \/ DoStoreIncr
    \/ DoRecvIncr
    \/ DoStoreExpire
    \/ DoRecvExpire
    \/ BothTick

SpecBoth == InitBoth /\ [][NextBoth]_vars

(***************************************************************************)
(* Startup: the process reads WINDOW_SIZE from its environment (line 8)    *)
(* and starts to serve (lines 240-247); nothing between the two examines   *)
(* the value.  Once serving, getCurrentWindow reads the clock with the     *)
(* window length the process was started with.                             *)
(***************************************************************************)
EnvValues ==
    { EnvUnset } \cup
    { EnvString(s) : s \in { << >>, <<"6", "0">>, <<"1">>, <<"0">>, <<"-", "5">>,
                             <<"-", "0">>, <<"a", "b", "c">>, <<"3", "0", "s">>,
                             <<"1", ".", "5">>, <<" ", "7">>, <<"0", "x", "1", "E">>,
                             <<"-", "6", "0">> } }

InitConfig ==
    /\ now = 0
    /\ store = NoCounters({})
    /\ expireAt = NoCounters({})
    /\ mode = "ready"
    /\ retries = 0
    /\ reqs = EmptyBag
    /\ issued = NoCounters({})
    /\ created = NoCounters({})
    /\ ncalls = 0
    /\ waited = 0
    /\ obs = << >>
    /\ \E env \in EnvValues : proc = [ env |-> env, windowSize |-> 0, phase |-> "starting" ]
    /\ requestCounts = NoRequestCounts
    /\ memLog = NoMemLog

Startup ==
    /\ proc.phase = "starting"
    /\ proc' = [ proc EXCEPT !.windowSize = ConfiguredWindowSize(proc.env),
                             !.phase = "serving" ]
    /\ UNCHANGED << now, store, expireAt, mode, retries, reqs, issued, created,
                    ncalls, waited, obs, requestCounts, memLog >>

\* getCurrentWindow() of the process as configured; obs keeps the last reading
ConfigRead ==
    /\ proc.phase = "serving"
    /\ obs' = << [ t |-> now, w |-> now \div (proc.windowSize * 1000) ] >>
    /\ UNCHANGED << now, store, expireAt, mode, retries, reqs, issued, created,
                    ncalls, waited, proc, requestCounts, memLog >>

ConfigTick == \E t \in ClockTimes : Tick(t)

NextConfig == Startup \/ ConfigRead \/ ConfigTick

SpecConfig == InitConfig /\ [][NextConfig]_vars

(***************************************************************************)
(* Properties.                                                             *)
(***************************************************************************)
\* a decision made by lines 70-90, and one made by the catch branch
Healthy(r) == Done(r) /\ r.cmd = "ok"
Degraded(r) == Done(r) /\ r.cmd = "err"

\* C1: sequential calls, healthy store: the n-th call of a window that returns
\* within the window reports count n and is allowed exactly when n is at most
\* the quota Q its credential resolves to; so the first Q calls are allowed and
\* call Q+1 is denied with count Q+1 and limit Q.
C1Theorem ==
    \A r \in Requests :
        (Done(r) /\ r.inWindow /\ IsNumber(r.userLimit)) =>
            LET n == issued[r.redisKey]
            IN  /\ r.result.count = n
                /\ r.result.limit = r.userLimit
                /\ r.result.allowed <=> (n <= r.userLimit)

\* quota 5: the sixth call of the window is denied with count 6, limit 5
C1Witness ==
    \E r \in Requests :
        /\ Done(r) /\ r.inWindow
        /\ r.apiKey = "sk_test_free_1"
        /\ issued[r.redisKey] = 6
        /\ r.result = [ allowed |-> FALSE, count |-> 6, limit |-> 5, tier |-> "free" ]

\* C2: healthy store, N concurrent decisions of one key made within its window:
\* never more than Q of them are allowed, no increment is lost (the counter is
\* the number of INCRs executed), and once all N > Q have returned exactly Q
\* are allowed and N - Q denied.
C2Theorem ==
    \A k \in AllKeys :
        LET Q == getRateLimitForAPIKey(KeyCred(k))
            N == issued[k]
            OfKey(r) == r.pc # "idle" /\ r.redisKey = k
            Executed(r) == OfKey(r) /\ ~(r.pc = "incr" /\ r.cmd = "pending")
            Returned_(r) == OfKey(r) /\ Done(r) /\ r.inWindow
            Allowed(r) == Returned_(r) /\ r.result.allowed
            Denied(r) == Returned_(r) /\ ~r.result.allowed
        IN  /\ store[k] = CountOf(reqs, Executed)
            /\ IsNumber(Q) =>
                 /\ CountOf(reqs, Allowed) <= Q
                 /\ (CountOf(reqs, Returned_) = N /\ N > Q) =>
                      /\ CountOf(reqs, Allowed) = Q
                      /\ CountOf(reqs, Denied) = N - Q

\* all NConc decisions of one window have returned: 5 allowed, the others denied
C2Witness ==
    \E k \in AllKeys :
        LET Of(r) == Done(r) /\ r.redisKey = k
            Allowed(r) == Of(r) /\ r.result.allowed
        IN  /\ KeyCred(k) = "sk_test_free_1"
            /\ issued[k] = NConc
            /\ CountOf(reqs, Of) = NConc
            /\ CountOf(reqs, Allowed) = 5

\* C3 as amended: a decision made by the catch branch is allowed whatever the
\* stored count, and reports count 0 and remaining = limit; a decision made
\* from a count reports a count of at least 1, so count 0 tells the two apart.
C3Theorem ==
    \A r \in Requests :
        /\ Degraded(r) =>
              /\ r.result.allowed
              /\ r.result.count = 0
              /\ r.result.remaining = r.result.limit
        /\ Healthy(r) => r.result.count >= 1

\* C3 as claimed: the fail-open decision is marked degraded
C3Original ==
    \A r \in Requests :
        Degraded(r) =>
            /\ r.result.allowed
            /\ "degraded" \in DOMAIN r.result

\* a fail-open decision while the stored count has reached the quota
C3Witness ==
    \E r \in Requests :
        /\ Degraded(r)
        /\ r.result.allowed
        /\ IsNumber(r.userLimit)
        /\ store[r.redisKey] >= r.userLimit

\* C4 as claimed: a call in flight always returns
AnyInFlight == \E r \in Requests : InFlight(r)

C4Claim == AnyInFlight ~> ~AnyInFlight

\* C5 as claimed: an allowed decision reports remaining = quota - count, a
\* number that is not negative
C5Claim ==
    \A r \in Requests :
        (Done(r) /\ r.result.allowed) =>
            /\ IsNumber(r.result.remaining)
            /\ r.result.remaining = r.result.limit - r.result.count
            /\ r.result.remaining >= 0

\* C5 for the credentials whose quota is a number
C5Numeric ==
    \A r \in Requests :
        (Done(r) /\ r.result.allowed /\ IsNumber(r.userLimit)) =>
            /\ r.result.remaining = r.result.limit - r.result.count
            /\ r.result.remaining >= 0

\* C6 as claimed: the first decision of a credential in a window is allowed
\* with count 1 and remaining = quota - 1
C6Claim ==
    \A r \in Requests :
        (Healthy(r) /\ issued[r.redisKey] = 1) =>
            /\ r.result.allowed
            /\ r.result.count = 1
            /\ IsNumber(r.result.remaining)
            /\ r.result.remaining = r.result.limit - 1

\* C6 for the credentials whose quota is a number
C6Numeric ==
    \A r \in Requests :
        (Healthy(r) /\ issued[r.redisKey] = 1 /\ IsNumber(r.userLimit)) =>
            /\ r.result.allowed
            /\ r.result.count = 1
            /\ r.result.remaining = r.result.limit - 1

\* C7 as claimed: a credential that is no key of API_KEYS resolves to the
\* tier free and to its quota
C7Claim ==
    \A r \in Requests :
        (r.pc # "idle" /\ r.apiKey \notin DOMAIN API_KEYS) =>
            /\ r.tier = "free"
            /\ r.userLimit = TIER_LIMITS["free"]

\* C7 for the credentials that are no property of Object.prototype either
C7Unknown ==
    \A r \in Requests :
        (r.pc # "idle" /\ r.apiKey \notin DOMAIN API_KEYS
                       /\ r.apiKey \notin ObjectPrototypeKeys) =>
            /\ r.tier = "free"
            /\ r.userLimit = 5

\* C8: a reading of the clock is floor(seconds / WINDOW_SIZE); of two readings,
\* the later is never the smaller, both are equal when the times fall in the
\* same WINDOW_SIZE-second bucket, they differ by at least 1 when the times
\* fall in different buckets and by exactly 1 when the buckets are adjacent.
Seconds(t) == t \div 1000

InBucket(t, b) ==
    b * WINDOW_SIZE <= Seconds(t) /\ Seconds(t) < (b + 1) * WINDOW_SIZE

Buckets == 0..(MaxWindow + 1)

C8Theorem ==
    /\ \A i \in 1..Len(obs) : InBucket(obs[i].t, obs[i].w)
    /\ Len(obs) = 2 =>
         LET a == obs[1]
             b == obs[2]
         IN  /\ a.w <= b.w
             /\ \A x \in Buckets, y \in Buckets :
                  (InBucket(a.t, x) /\ InBucket(b.t, y)) =>
                      /\ x = y => b.w = a.w
                      /\ x # y => b.w - a.w >= 1
                      /\ y = x + 1 => b.w - a.w = 1

\* two readings one millisecond apart, on either side of a window's edge
C8Witness ==
    /\ Len(obs) = 2
    /\ obs[1] = [ t |-> WindowMs - 1, w |-> 0 ]
    /\ obs[2] = [ t |-> WindowMs, w |-> 1 ]

\* C9 as claimed: a counter in the store has a TTL, or the request whose INCR
\* created it is on its way to set one
SettingTtl(r, k) ==
    /\ r.redisKey = k
    /\ r.count = 1
    /\ \/ r.pc = "incr" /\ r.cmd = "ok"
       \/ r.pc = "expire" /\ r.cmd = "pending"

C9Claim ==
    \A k \in AllKeys :
        store[k] > 0 =>
            \/ expireAt[k] # 0
            \/ \E r \in Requests : SettingTtl(r, k)

\* C10: while the clock is in window w, a counter of window w that was created
\* is in the store, and was created once: no INCR of that window has returned
\* 1 a second time.
C10Theorem ==
    \A k \in AllKeys :
        (created[k] >= 1 /\ getCurrentWindow = KeyWindow(k)) =>
            /\ store[k] >= 1
            /\ created[k] = 1

\* at the last millisecond of window 0, a counter created and given its TTL at
\* the window's start has gone on to 2
C10Witness ==
    /\ now = WindowMs - 1
    /\ \E k \in AllKeys :
          /\ KeyWindow(k) = 0
          /\ created[k] = 1
          /\ expireAt[k] = ExpireSeconds * 1000
          /\ store[k] = 2
          /\ ncalls = 2

\* C11: healthy store, decisions of one key made within its window: the requests
\* whose INCR was executed hold the counts 1..N, N the value of the counter,
\* each count held by exactly one request, and a decision that returned reports
\* the count its INCR was answered with.
HasCount(r, k) ==
    /\ r.pc # "idle"
    /\ r.redisKey = k
    /\ ~(r.pc = "incr" /\ r.cmd = "pending")

C11Theorem ==
    \A k \in AllKeys :
        LET S == { r \in Requests : HasCount(r, k) }
        IN  /\ { r.count : r \in S } = 1..store[k]
            /\ \A r \in S :
                  /\ CopiesIn(r, reqs) = 1
                  /\ \A o \in S : o # r => o.count # r.count
                  /\ Done(r) => r.result.count = r.count

\* all NConc decisions of one key have returned, with the counts 1..NConc
C11Witness ==
    \E k \in AllKeys :
        LET S == { r \in Requests : Done(r) /\ r.redisKey = k }
        IN  /\ store[k] = NConc
            /\ { r.result.count : r \in S } = 1..NConc

\* C12 as claimed: a call that returned has made one round trip to the store
C12Claim == \A r \in Requests : Done(r) => r.trips = 1

\* C12 as amended: a call issues INCR, and issues EXPIRE as well exactly when
\* its INCR was answered with 1: a decision made from count 1 has made two
\* round trips, one made from a larger count has made one, and a fail-open
\* decision has made one (INCR failed) or two (EXPIRE failed).
C12Theorem ==
    \A r \in Requests :
        /\ Healthy(r) => r.trips = (IF r.result.count = 1 THEN 2 ELSE 1)
        /\ Degraded(r) => r.trips \in {1, 2}
        /\ r.pc = "incr" => r.trips = 1
        /\ r.pc = "expire" => r.trips = 2

\* a decision from count 2 after one round trip, in a window whose counter was
\* created by a call that made two
C12Witness ==
    \E r \in Requests :
        /\ Healthy(r)
        /\ r.result.count = 2
        /\ r.trips = 1
        /\ created[r.redisKey] = 1
        /\ expireAt[r.redisKey] # 0
        /\ ncalls = 2

\* C13: a request that carries no credential is answered 401 without a call of
\* checkRateLimit: it returns no decision and issues no store command, the
\* calls of checkRateLimit made are those of the requests with a credential,
\* and every counter is the number of INCRs those requests had executed.
C13Theorem ==
    LET Called(r) == ~Falsy(r.apiKey) /\ r.pc # "idle"
    IN  /\ \A r \in Requests :
              Falsy(r.apiKey) =>
                  /\ r.pc \in {"idle", "done"}
                  /\ r.trips = 0
                  /\ r.result = NoResult
                  /\ Done(r) => r.response.status = 401
        /\ ncalls = CountOf(reqs, Called)
        /\ \A k \in AllKeys :
              LET Executed(r) == Called(r) /\ HasCount(r, k)
              IN  store[k] = CountOf(reqs, Executed)

\* the request without credential was answered 401 while decisions of the
\* run's credential were in flight and its counter stood at 2
C13Witness ==
    /\ \E r \in Requests : Falsy(r.apiKey) /\ Done(r) /\ r.response.status = 401
    /\ \E r \in Requests : ~Falsy(r.apiKey) /\ InFlight(r)
    /\ \E k \in AllKeys : store[k] = 2

\* C14 as claimed: a request with a credential whose decision was made is
\* answered 429 with retryAfter = WINDOW_SIZE when the decision is denied and
\* 200 otherwise, the fail-open decision included
C14Claim ==
    \A r \in Requests :
        (Done(r) /\ ~Falsy(r.apiKey)) =>
            /\ ~r.response.threw
            /\ ~r.result.allowed =>
                  r.response.status = 429 /\ r.response.retryAfter = WINDOW_SIZE
            /\ r.result.allowed => r.response.status = 200

\* C14 for the credentials whose quota is a number
C14Numeric ==
    \A r \in Requests :
        (Done(r) /\ ~Falsy(r.apiKey) /\ IsNumber(r.userLimit)) =>
            /\ ~r.response.threw
            /\ ~r.result.allowed =>
                  r.response.status = 429 /\ r.response.retryAfter = WINDOW_SIZE
            /\ r.result.allowed => r.response.status = 200

\* C15 as claimed: the process does not serve when the window length it was
\* given is zero or negative, and serves only with a window length that is a
\* positive integer
C15Claim ==
    proc.phase = "serving" =>
        /\ proc.windowSize > 0
        /\ LET n == ParseInt(proc.env) IN ~(IsNumber(n) /\ n <= 0)

\* a process started with a negative window length serves, and its window
\* identifiers run backwards as time advances
NegativeWindowServed ==
    /\ proc.phase = "serving"
    /\ proc.windowSize < 0
    /\ obs # << >>
    /\ obs[1].w < 0

Injective ==
    \A p \in KeyPairs, q \in KeyPairs :
        RedisKey(p[1], p[2]) = RedisKey(q[1], q[2]) => p = q

Changed(k) == store'[k] # store[k] \/ expireAt'[k] # expireAt[k]

ActsOn(r, k) ==
    /\ r.cmd = "pending"
    /\ CopiesIn(r, reqs') < CopiesIn(r, reqs)
    /\ <<r.apiKey, r.currentWindow>> \in KeyPairs
    /\ RedisKey(r.apiKey, r.currentWindow) = k
    /\ \A p \in KeyPairs : RedisKey(p[1], p[2]) = k => p = <<r.apiKey, r.currentWindow>>

C17Theorem ==
    [][ /\ Injective
        /\ \A k \in AllKeys :
              Changed(k) =>
                  \/ now' # now /\ store'[k] = 0 /\ expireAt'[k] = 0
                  \/ \E r \in Requests : ActsOn(r, k)
      ]_vars

\* the credentials k:1 and k: the counters of (k:1, window 0) and of
\* (k, window 1) are both in the store, each at 1
C17Witness ==
    /\ RedisKey("k:1", 0) \in AllKeys
    /\ RedisKey("k", 1) \in AllKeys
    /\ store[RedisKey("k:1", 0)] = 1
    /\ store[RedisKey("k", 1)] = 1

\* C18: healthy store, clock that does not go backwards: of the decisions of
\* one credential, at most Q computed for one window are allowed and at most
\* 2 x Q computed for two consecutive windows, as long as no counter of those
\* windows was evicted and created again by a call that outlived its TTL.
AllowedIn(c, W) ==
    LET In(r) == /\ Healthy(r)
                 /\ r.apiKey = c
                 /\ r.currentWindow \in W
                 /\ r.result.allowed
    IN  CountOf(reqs, In)

C18Theorem ==
    \A c \in BurstCreds :
        \A w \in 0..MaxWindow :
            LET Q == getRateLimitForAPIKey(c)
                Kept(x) == x \in 0..MaxWindow => created[RedisKey(c, x)] <= 1
            IN  /\ Kept(w) => AllowedIn(c, {w}) <= Q
                /\ (Kept(w) /\ Kept(w + 1)) => AllowedIn(c, {w, w + 1}) <= 2 * Q

\* 2 x Q decisions allowed within one millisecond: Q from the last millisecond
\* of window 0 on, Q in the first millisecond of window 1
C18Witness ==
    \E c \in BurstCreds :
        /\ now = WindowMs
        /\ expireAt[RedisKey(c, 0)] = (WindowMs - 1) + ExpireSeconds * 1000
        /\ AllowedIn(c, {0}) = getRateLimitForAPIKey(c)
        /\ AllowedIn(c, {1}) = getRateLimitForAPIKey(c)
        /\ \A r \in Requests : r.currentWindow = 1 => r.inWindow

\* C19 as claimed: once a denied decision of a key was returned, no decision
\* made from a count of that key is returned allowed
C19Claim ==
    [][ \A r2 \in BagToSet(reqs') :
          ( /\ CopiesIn(r2, reqs') > CopiesIn(r2, reqs)
            /\ Healthy(r2)
            /\ r2.result.allowed )
          => ~\E r1 \in Requests :
                 /\ Healthy(r1)
                 /\ r1.redisKey = r2.redisKey
                 /\ ~r1.result.allowed
      ]_vars

\* C19 as amended: denied requests increment the counter: of two decisions of
\* one key made from counts, if the one with the smaller count (the one whose
\* INCR the store executed first) is denied, so is the other; a decision
\* returned allowed after a denial is one whose INCR was executed before the
\* denied one's.
C19Theorem ==
    \A r1 \in Requests, r2 \in Requests :
        ( /\ Healthy(r1) /\ Healthy(r2)
          /\ r1.redisKey = r2.redisKey
          /\ ~r1.result.allowed
          /\ r2.result.count > r1.result.count )
        => ~r2.result.allowed

\* two denied decisions of one key, with counts Q+1 and Q+2, next to the one
\* allowed with count Q
C19Witness ==
    \E r0 \in Requests, r1 \in Requests, r2 \in Requests :
        /\ Healthy(r0) /\ Healthy(r1) /\ Healthy(r2)
        /\ r0.apiKey = "sk_test_free_1"
        /\ r1.redisKey = r0.redisKey /\ r2.redisKey = r0.redisKey
        /\ r0.result.allowed /\ r0.result.count = 5
        /\ ~r1.result.allowed /\ r1.result.count = 6
        /\ ~r2.result.allowed /\ r2.result.count = 7

(***************************************************************************)
(* C20.  The two variants agree.  The store-backed variant decides by      *)
(* count > userLimit and the in-memory one by count > RATE_LIMIT, so for   *)
(* the same quota the outcomes are the same when the store-backed decision *)
(* taken at quota RATE_LIMIT on the count INCR returned is the in-memory   *)
(* outcome.                                                                *)
(***************************************************************************)
\* the last request has been answered by both variants, the store-backed
\* call having returned before its key expired
AnsweredByBoth(r) ==
    /\ Healthy(r)
    /\ MemCaughtUp(r.apiKey)
    /\ memLog.last.userId = r.apiKey
    /\ created[r.redisKey] <= 1

\* the key of (user, the window stored for the user)
StoredKey(userId) == RedisKey(userId, requestCounts[userId].window)

SameOutcome(r) ==
    /\ memLog.last.count = r.result.count
    /\ memLog.last.allowed = Decide(r.result.count, RATE_LIMIT, r.tier).allowed
    /\ requestCounts[r.apiKey].window = r.currentWindow

C20NewWindow ==
    \E r \in Requests :
        /\ AnsweredByBoth(r)
        /\ r.currentWindow > 0
        /\ issued[RedisKey(r.apiKey, 0)] > 1
        /\ r.result.count = 1
        /\ memLog.last.count = 1

\* a counter of a window is created a second time, by a call that outlived it
Recreated == \E k \in AllKeys : created[k] > 1

\* a counter is evicted once its window and the next have passed
EvictionSeen == \E k \in AllKeys : created[k] >= 1 /\ store[k] = 0

====
